---- MODULE Spec2Model ----
(***************************************************************************)
(* A model of mysql_filter_slow_log.py (MySQL Slow Query Log Filter 1.5).  *)
(*                                                                         *)
(* Strings are sequences of one-character strings, so that the substring   *)
(* tests ("iq in query") and the concatenation of body lines are computed. *)
(* An input line is the record                                             *)
(*    [mark, c2, text, nums]                                               *)
(* mark : line[0] == '#' and line[1] == ' '                                *)
(* c2   : line[2] of a marked line ("T", "U", "Q", or another character)   *)
(* text : the payload with the last character cut off (line[8:-1] of a     *)
(*        Time line, line[13:-1] of a User@Host line, line[:-1] of a body  *)
(*        line)                                                            *)
(* nums : what the int() calls of lines 387-389 yield on a Query_time      *)
(*        line: four integers, or <<>> when one of them raises.            *)
(* A timestamp string t stands for a time through get_log_timestamp.       *)
(* Times are small integers; 0 is Python's False (an absent bound).        *)
(***************************************************************************)
EXTENDS Integers, Sequences, FiniteSets, Bags, TLC

VARIABLES
    pc,                 \* position of the script
    argv,               \* sys.argv[1:] as far as the loop of line 305 has consumed it
    min_query_time, min_rows_examined,
    include_users, exclude_users, include_queries,
    no_duplicates, details, date_first, date_last,
    new_sorting, top,
    line,               \* loop variable of line 349 (the line last read)
    nlines,             \* number of lines read from stdin
    eof,                \* stdin was read to its end
    in_query, query, timestamp, user, query_time,
    queries,            \* the nested dict query -> user -> timestamp -> query_time
    lines,              \* the dict query -> data of lines 400-448
    stdout,             \* what was printed, in order
    accepted            \* history: the bag of calls of process_query

cfgvars == <<min_query_time, min_rows_examined, include_users, exclude_users,
             include_queries, no_duplicates, details, date_first, date_last,
             new_sorting, top>>
loopvars == <<line, nlines, eof, in_query, query, timestamp, user, query_time,
              queries, accepted>>
vars == <<pc, argv, cfgvars, loopvars, lines, stdout>>

----------------------------------------------------------------------------
(* Bounds of the model. *)

MaxLines == 5       \* lines read from stdin before the end of the stream
MaxAggLines == 8    \* the same, for the aggregation runs
MaxArgs == 3        \* command line arguments after the script name

----------------------------------------------------------------------------
(* Strings. *)

\* Python's "s in t" for strings.
IsSubstr(s, t) ==
    \E i \in 0..(Len(t) - Len(s)) : SubSeq(t, i + 1, i + Len(s)) = s

\* Python's False where the code stores it in a string variable (line 369).
PyFalse == <<"False">>

\* Truth value of a variable that holds a string or False.
Truthy(s) == s # <<>> /\ s # PyFalse

\* "for x in xs: if x in s: ... break" of lines 355-358, 375-378, 381-384.
AnyIn(xs, s) == \E i \in 1..Len(xs) : IsSubstr(xs[i], s)

----------------------------------------------------------------------------
(* get_log_timestamp: time.mktime(time.strptime(t, '%y%m%d %H:%M:%S')).     *)
(* Two different strings can denote the same time ("1" and "01"); a string *)
(* that does not match the format, and False, raise.                       *)

Raises == -1

get_log_timestamp(t) ==
    CASE t = <<"1">> -> 1
      [] t = <<"2">> -> 2
      [] t = <<"0", "2">> -> 2
      [] t = <<"3">> -> 3
      [] OTHER -> Raises

----------------------------------------------------------------------------
(* The filters of the main loop. *)

\* Line 368: the condition under which the timestamp is replaced by False.
DateRejects(t) ==
    \/ (date_first # 0 /\ t < date_first)
    \/ (date_last # 0 /\ t > date_last)

\* A user filter that forgets the loop over exclude_users.
UserFilterNoExclude(u) == include_users = <<>> \/ AnyIn(include_users, u)

\* Lines 373-384: the value of in_query after a User@Host line.
UserFilter(u) ==
    IF include_users = <<>>
    THEN ~AnyIn(exclude_users, u)
    ELSE AnyIn(include_users, u)

\* Lines 390-391: the value of in_query after a Query_time line.
Threshold(qt) ==
    \/ qt[1] >= min_query_time
    \/ (min_rows_examined # 0 /\ qt[4] >= min_rows_examined)

\* A flush that does not look at include_queries.
QueryFilterSkipped(inq, q) == inq

\* Lines 353-358: in_query as the flush of a metadata line sees it.
QueryFilter(inq, q) ==
    IF include_queries # <<>> THEN AnyIn(include_queries, q) ELSE inq

----------------------------------------------------------------------------
(* process_query, lines 174-188. *)

Call(q, u, t, qt) == [query |-> q, user |-> u, timestamp |-> t, query_time |-> qt]

\* Lines 177-183: queries[query][user][timestamp] = query_time.
Store(qs, c) ==
    {e \in qs : ~(e.query = c.query /\ e.user = c.user /\ e.timestamp = c.timestamp)}
        \cup {c}

\* Lines 185-188: the print indexes query_time[0..3].
PrintRaises(c) == Len(c.query_time) < 4

AddCall(c) == accepted (+) SetToBag({c})

----------------------------------------------------------------------------
(* The main loop, lines 349-394: one line of stdin.                        *)
(* An exception that nothing catches ends the script: pc = "crashed".      *)

\* The flush without line 362: the buffer is kept.
QueryAfterFlushKept(flush, q) == q

\* Line 362: query = '' at the end of the flush.
QueryAfterFlush(flush, q) == IF flush THEN <<>> ELSE q

ProcessLine(l) ==
    /\ pc = "loop"
    /\ line' = l
    /\ nlines' = nlines + 1
    /\ LET flush == l.mark /\ query # <<>>                        \* 351-352
           call == Call(query, user, timestamp, query_time)
           doCall == flush /\ QueryFilter(in_query, query)         \* 353-359
           callRaises == doCall /\ ~no_duplicates /\ PrintRaises(call)
           query2 == QueryAfterFlush(flush, query)                 \* 362
           inq2 == IF flush THEN FALSE ELSE in_query               \* 363
           t == get_log_timestamp(l.text)                          \* 367
       IN
       /\ accepted' = IF doCall THEN AddCall(call) ELSE accepted
       /\ queries' = IF doCall /\ no_duplicates THEN Store(queries, call) ELSE queries
       /\ stdout' = IF doCall /\ ~no_duplicates /\ ~callRaises
                    THEN Append(stdout, call) ELSE stdout
       /\ IF callRaises
          THEN /\ pc' = "crashed"
               /\ UNCHANGED <<in_query, query, timestamp, user, query_time>>
          ELSE IF ~l.mark
          THEN /\ pc' = pc                                         \* 393-394
               /\ query' = IF in_query THEN query \o l.text ELSE query
               /\ UNCHANGED <<in_query, timestamp, user, query_time>>
          ELSE IF l.c2 = "T"
          THEN /\ pc' = IF t = Raises THEN "crashed" ELSE pc       \* 365-369
               /\ timestamp' = IF t # Raises /\ DateRejects(t) THEN PyFalse ELSE l.text
               /\ query' = query2
               /\ in_query' = inq2
               /\ UNCHANGED <<user, query_time>>
          ELSE IF l.c2 = "U" /\ Truthy(timestamp)
          THEN /\ pc' = pc                                         \* 370-384
               /\ user' = l.text
               /\ in_query' = UserFilter(l.text)
               /\ query' = query2
               /\ UNCHANGED <<timestamp, query_time>>
          ELSE IF inq2 /\ l.c2 = "Q"
          THEN /\ query' = query2                                  \* 386-391
               /\ IF Len(l.nums) < 4
                  THEN /\ pc' = "crashed"
                       /\ in_query' = inq2
                       /\ UNCHANGED query_time
                  ELSE /\ pc' = pc
                       /\ query_time' = l.nums
                       /\ in_query' = Threshold(l.nums)
               /\ UNCHANGED <<timestamp, user>>
          ELSE /\ pc' = pc
               /\ query' = query2
               /\ in_query' = inq2
               /\ UNCHANGED <<timestamp, user, query_time>>
    /\ UNCHANGED <<argv, cfgvars, eof, lines>>

(* The end of the stream, lines 396-397, and the test of line 399. *)
EndOfStream ==
    /\ pc = "loop"
    /\ eof' = TRUE
    /\ LET call == Call(query, user, timestamp, query_time)
           doCall == query # <<>>
           callRaises == doCall /\ ~no_duplicates /\ PrintRaises(call)
       IN
       /\ accepted' = IF doCall THEN AddCall(call) ELSE accepted
       /\ queries' = IF doCall /\ no_duplicates THEN Store(queries, call) ELSE queries
       /\ stdout' = IF doCall /\ ~no_duplicates /\ ~callRaises
                    THEN Append(stdout, call) ELSE stdout
       /\ pc' = IF callRaises THEN "crashed"
                ELSE IF no_duplicates THEN "finalize" ELSE "done"
    /\ UNCHANGED <<argv, cfgvars, line, nlines, in_query, query, timestamp, user,
                   query_time, lines>>

----------------------------------------------------------------------------
(* The aggregation of lines 399-448.                                       *)

\* Code points of the characters the model uses (iso-8859-15).
Ord(c) ==
    CASE c = "0" -> 48 [] c = "1" -> 49 [] c = "2" -> 50 [] c = "3" -> 51
      [] c = "r" -> 114 [] c = "s" -> 115 [] c = "t" -> 116 [] c = "x" -> 120
      [] OTHER -> 70

\* cmp(a, b) of two integers.
cmp(a, b) == IF a < b THEN -1 ELSE IF a > b THEN 1 ELSE 0

\* cmp(s, t) of two strings.
RECURSIVE StrCmp(_, _)
StrCmp(s, t) ==
    IF s = <<>> \/ t = <<>> THEN cmp(Len(s), Len(t))
    ELSE IF Head(s) # Head(t) THEN cmp(Ord(Head(s)), Ord(Head(t)))
    ELSE StrCmp(Tail(s), Tail(t))

\* Line 172: cmp_users.
cmp_users(a, b) == StrCmp(a, b)

\* The sequences that list every element of the finite set S once.
PermSeqs(S) ==
    {s \in [1..Cardinality(S) -> S] : \A i, j \in 1..Cardinality(S) : s[i] = s[j] => i = j}

\* The orders in which lines 410 and 413 can visit the entries of one query:
\* the users in the order of cmp_users, the timestamps of one user in the
\* order of the dict.
VisitOrders(E) ==
    {s \in PermSeqs(E) :
        \A i, j \in 1..Len(s) : i < j => cmp_users(s[i].user, s[j].user) <= 0}

MinTimestampInit == 2147483647
MaxTimestampInit == 0

AccInit ==
    [count |-> 0, sum |-> <<0, 0, 0, 0>>, max |-> <<0, 0, 0, 0>>,
     min_timestamp |-> MinTimestampInit, max_timestamp |-> MaxTimestampInit,
     output |-> <<>>, raised |-> FALSE]

Max2(a, b) == IF b > a THEN b ELSE a

\* An accumulation that counts the distinct counter tuples of a user instead
\* of the timestamps, and adds up only those.
AccStepPerTuple(acc, e) ==
    LET t == get_log_timestamp(e.timestamp)
        first == acc.output = <<>> \/ acc.output[Len(acc.output)].user # e.user
        query_times == IF first THEN {} ELSE acc.output[Len(acc.output)].query_times
        isnew == e.query_time \notin query_times
        entry == [user |-> e.user, query_times |-> query_times \cup {e.query_time}]
        qt == e.query_time
    IN IF acc.raised \/ t = Raises \/ Len(qt) < 4
       THEN [acc EXCEPT !.raised = TRUE]
       ELSE [count |-> IF isnew THEN acc.count + 1 ELSE acc.count,
             sum |-> IF isnew THEN [i \in 1..4 |-> acc.sum[i] + qt[i]] ELSE acc.sum,
             max |-> IF isnew THEN [i \in 1..4 |-> Max2(acc.max[i], qt[i])] ELSE acc.max,
             min_timestamp |-> IF t < acc.min_timestamp THEN t ELSE acc.min_timestamp,
             max_timestamp |-> IF t < acc.min_timestamp THEN acc.max_timestamp
                               ELSE IF t > acc.max_timestamp THEN t
                               ELSE acc.max_timestamp,
             output |-> IF first THEN Append(acc.output, entry)
                        ELSE [acc.output EXCEPT ![Len(acc.output)] = entry],
             raised |-> FALSE]

\* Lines 413-435: one timestamp of one user.
AccStep(acc, e) ==
    LET t == get_log_timestamp(e.timestamp)
        first == acc.output = <<>> \/ acc.output[Len(acc.output)].user # e.user
        query_times == IF first THEN {} ELSE acc.output[Len(acc.output)].query_times
        isnew == e.query_time \notin query_times
        entry == [user |-> e.user, query_times |-> query_times \cup {e.query_time}]
        qt == e.query_time
    IN IF acc.raised \/ t = Raises \/ Len(qt) < 4
       THEN [acc EXCEPT !.raised = TRUE]
       ELSE [count |-> acc.count + 1,
             sum |-> [i \in 1..4 |-> acc.sum[i] + qt[i]],
             max |-> IF isnew THEN [i \in 1..4 |-> Max2(acc.max[i], qt[i])] ELSE acc.max,
             min_timestamp |-> IF t < acc.min_timestamp THEN t ELSE acc.min_timestamp,
             max_timestamp |-> IF t < acc.min_timestamp THEN acc.max_timestamp
                               ELSE IF t > acc.max_timestamp THEN t
                               ELSE acc.max_timestamp,
             output |-> IF first THEN Append(acc.output, entry)
                        ELSE [acc.output EXCEPT ![Len(acc.output)] = entry],
             raised |-> FALSE]

RECURSIVE Accumulate(_, _)
Accumulate(acc, s) ==
    IF s = <<>> THEN acc ELSE Accumulate(AccStep(acc, Head(s)), Tail(s))

\* round(float(a) / float(n), 1), in tenths.
Round1(a, n) == (20 * a + n) \div (2 * n)

\* round(a / n, 0) of two ints: Python 2 divides them as integers first.
Round0(a, n) == a \div n

\* Lines 436-448: the list stored in lines[query].  The Query_time lines of
\* the output are left out unless details is set; their order is not modelled.
Data(q, acc) ==
    LET shown == [i \in 1..Len(acc.output) |->
                    [user |-> acc.output[i].user,
                     query_times |-> IF details THEN acc.output[i].query_times ELSE {}]]
    IN [i \in 0..15 |->
        CASE i = 0 -> [users |-> shown, query |-> q]
          [] i = 1 -> acc.count
          [] i = 2 -> Round1(acc.sum[1], acc.count)
          [] i = 3 -> acc.max[1]
          [] i = 4 -> acc.sum[1]
          [] i = 5 -> Round1(acc.sum[2], acc.count)
          [] i = 6 -> acc.max[2]
          [] i = 7 -> acc.sum[2]
          [] i = 8 -> Round0(acc.sum[3], acc.count)
          [] i = 9 -> acc.max[3]
          [] i = 10 -> acc.sum[3]
          [] i = 11 -> Round0(acc.sum[4], acc.count)
          [] i = 12 -> acc.max[4]
          [] i = 13 -> acc.sum[4]
          [] i = 14 -> acc.min_timestamp
          [] i = 15 -> acc.max_timestamp]

QueryTexts(qs) == {e.query : e \in qs}
EntriesOf(qs, q) == {e \in qs : e.query = q}

\* The accumulators lines 410-435 can end with for query q.
Accs(q) == {Accumulate(AccInit, s) : s \in VisitOrders(EntriesOf(queries, q))}

\* The dicts the loop of line 401 can build.
RECURSIVE LinesOver(_)
LinesOver(Q) ==
    IF Q = {} THEN {<<>>}
    ELSE LET q == CHOOSE x \in Q : TRUE
         IN {[y \in (DOMAIN f) \cup {q} |-> IF y = q THEN Data(q, a) ELSE f[y]] :
                f \in LinesOver(Q \ {q}), a \in Accs(q)}

Finalize ==
    /\ pc = "finalize"
    /\ IF \E q \in QueryTexts(queries) : \E a \in Accs(q) : a.raised
       THEN pc' = "crashed" /\ UNCHANGED lines
       ELSE pc' = "report" /\ lines' \in LinesOver(QueryTexts(queries))
    /\ UNCHANGED <<argv, cfgvars, loopvars, stdout>>

----------------------------------------------------------------------------
(* The report of lines 450-496.                                            *)

\* A comparison without the factor -1: ascending on every key.
RECURSIVE CmpFromAscending(_, _, _)
CmpFromAscending(a, b, k) ==
    IF k > Len(new_sorting) THEN 0
    ELSE IF a[new_sorting[k]] # b[new_sorting[k]]
         THEN cmp(a[new_sorting[k]], b[new_sorting[k]])
         ELSE CmpFromAscending(a, b, k + 1)

\* Lines 161-167: cmp_queries on the data of two items, from the k-th key on.
RECURSIVE CmpFrom(_, _, _)
CmpFrom(a, b, k) ==
    IF k > Len(new_sorting) THEN 0
    ELSE IF a[new_sorting[k]] # b[new_sorting[k]]
         THEN -1 * cmp(a[new_sorting[k]], b[new_sorting[k]])
         ELSE CmpFrom(a, b, k + 1)

cmp_queries(a, b) == CmpFrom(a.data, b.data, 1)

\* sorted(seq, cmp): a stable sort; x goes before the first item greater than it.
InsertSorted(s, x) ==
    LET later == {i \in 1..Len(s) : cmp_queries(s[i], x) > 0}
        at == IF later = {} THEN Len(s) + 1
              ELSE CHOOSE i \in later : \A j \in later : i <= j
    IN SubSeq(s, 1, at - 1) \o <<x>> \o SubSeq(s, at, Len(s))

RECURSIVE Sorted(_)
Sorted(s) ==
    IF s = <<>> THEN <<>>
    ELSE InsertSorted(Sorted(SubSeq(s, 1, Len(s) - 1)), s[Len(s)])

\* Printed with the test of line 495 made before the increment of line 494.
PrintedOneMore(m) == IF top # 0 /\ top + 1 < m THEN top + 1 ELSE m

\* Lines 493-496: the number of items printed out of m.
Printed(m) == IF top # 0 /\ top < m THEN top ELSE m

\* Lines 481-484: "between min and max" when max_timestamp is not zero, and
\* "on min" when it is.
Period(data) == IF data[15] # 0 THEN <<data[14], data[15]>> ELSE <<data[14]>>

\* Line 451 takes the items in the order of the dict; the numbers are printed
\* through number_format, which is not modelled.
Report ==
    /\ pc = "report"
    /\ \E order \in PermSeqs(DOMAIN lines) :
          LET items == [i \in 1..Len(order) |->
                           [query |-> order[i], data |-> lines[order[i]],
                            period |-> Period(lines[order[i]])]]
              sorted == Sorted(items)
          IN stdout' = stdout \o SubSeq(sorted, 1, Printed(Len(sorted)))
    /\ pc' = "done"
    /\ UNCHANGED <<argv, cfgvars, loopvars, lines>>

----------------------------------------------------------------------------
(* The state at line 342, where the main loop starts, and its input.       *)
(* Line 340 (print new_sorting; sys.exit()) ends the script before it gets *)
(* here: SpecRun, below, is the script from its start.  Spec and SpecAgg   *)
(* are lines 342-496 as they are written, started in the state lines       *)
(* 342-347 set up, under configurations the argument loop can produce.     *)

\* Lines 287-291 and 337-339: the data indexes in the default order.
DefaultOrder == <<4, 2, 3, 7, 5, 6, 13, 11, 12, 1, 10, 8, 9>>

\* The order after --sort=ec,mqt.
CountFirst == <<1, 3, 4, 2, 7, 5, 6, 13, 11, 12, 10, 8, 9>>

NoLine == [mark |-> FALSE, c2 |-> "", text |-> <<>>, nums |-> <<>>]

TimeLine(t) == [mark |-> TRUE, c2 |-> "T", text |-> t, nums |-> <<>>]
UserLine(u) == [mark |-> TRUE, c2 |-> "U", text |-> u, nums |-> <<>>]
CountersLine(n) == [mark |-> TRUE, c2 |-> "Q", text |-> <<>>, nums |-> n]
OtherMarked == [mark |-> TRUE, c2 |-> "a", text |-> <<>>, nums |-> <<>>]
BodyLine(b) == [mark |-> FALSE, c2 |-> "", text |-> b, nums |-> <<>>]

Lines ==
    {TimeLine(t) : t \in {<<"1">>, <<"2">>, <<"3">>, <<"x">>}}
    \cup {UserLine(u) : u \in {<<"r">>, <<"t">>, <<"r", "t">>}}
    \cup {CountersLine(n) : n \in {<<2, 0, 1, 0>>, <<0, 0, 0, 3>>, <<0, 0, 0, 0>>, <<>>}}
    \cup {OtherMarked}
    \cup {BodyLine(b) : b \in {<<>>, <<"s">>, <<"x">>}}

LoopStart ==
    /\ pc = "loop"
    /\ argv = <<>>
    /\ line = NoLine
    /\ nlines = 0
    /\ eof = FALSE
    /\ in_query = FALSE                 \* 342
    /\ query = <<>>                     \* 343
    /\ timestamp = <<>>                 \* 344
    /\ user = <<>>                      \* 345
    /\ query_time = <<>>                \* 346
    /\ queries = {}                     \* 347
    /\ lines = <<>>
    /\ stdout = <<>>
    /\ accepted = EmptyBag

Init ==
    /\ LoopStart
    /\ min_query_time \in {1, 3}
    /\ min_rows_examined \in {0, 3}
    /\ include_users \in {<<>>, << <<"r">> >>}
    /\ exclude_users \in {<<>>, << <<"t">> >>}
    /\ include_queries \in {<<>>, << <<"s">> >>}
    /\ no_duplicates \in BOOLEAN
    /\ details = FALSE
    /\ date_first \in {0, 2}
    /\ date_last \in {0, 2}
    /\ new_sorting = DefaultOrder
    /\ top = 0

ReadLine == nlines < MaxLines /\ \E l \in Lines : ProcessLine(l)

Next == ReadLine \/ EndOfStream \/ Finalize \/ Report

Spec == Init /\ [][Next]_vars

----------------------------------------------------------------------------
(* Runs with --no-duplicates --details and the default filters, on          *)
(* well-formed lines.                                                      *)

AggLines ==
    {TimeLine(t) : t \in {<<"1">>, <<"2">>, <<"0", "2">>}}
    \cup {UserLine(u) : u \in {<<"r">>, <<"t">>}}
    \cup {CountersLine(n) : n \in {<<2, 0, 1, 0>>, <<1, 1, 0, 3>>}}
    \cup {BodyLine(b) : b \in {<<"s">>, <<"x">>}}

InitAgg ==
    /\ LoopStart
    /\ min_query_time = 1               \* 276
    /\ min_rows_examined = 0            \* 277
    /\ include_users = <<>>
    /\ exclude_users = <<>>
    /\ include_queries = <<>>
    /\ no_duplicates = TRUE
    /\ details = TRUE
    /\ date_first = 0
    /\ date_last = 0
    /\ new_sorting \in {DefaultOrder, CountFirst}
    /\ top \in {0, 1}

ReadAggLine == nlines < MaxAggLines /\ \E l \in AggLines : ProcessLine(l)

NextAgg == ReadAggLine \/ EndOfStream \/ Finalize \/ Report

SpecAgg == InitAgg /\ [][NextAgg]_vars

----------------------------------------------------------------------------
(* The script from its start: the argument loop of lines 305-334 and the   *)
(* statements of lines 335-340.                                            *)
(* An argument is the record [opt, isint, n, text]: opt is the prefix the  *)
(* tests of lines 308-330 look at, n the value of int() on the rest        *)
(* (isint: int() does not raise), and text the rest as characters: arg[4:] *)
(* of -iu/-eu/-iq, arg[7:] of --sort= (or --sort-) and of --date=.         *)

\* str.split(sep) of lines 292 and 316: the pieces between the separators.
RECURSIVE split(_, _)
split(s, sep) ==
    IF \A i \in 1..Len(s) : s[i] # sep THEN <<s>>
    ELSE LET i == CHOOSE i \in 1..Len(s) :
                     s[i] = sep /\ \A j \in 1..(i - 1) : s[j] # sep
         IN <<SubSeq(s, 1, i - 1)>> \o split(SubSeq(s, i + 1, Len(s)), sep)

\* Line 292: first_chars, the first character of every word, joined.
RECURSIVE first_chars(_)
first_chars(words) ==
    IF words = <<>> THEN <<>>
    ELSE (IF Head(words) = <<>> THEN <<>> ELSE <<Head(Head(words))>>)
         \o first_chars(Tail(words))

\* Lines 287-291: default_sorting as written, (index, long name) pairs.
default_sorting ==
    << [idx |-> 4,
        name |-> <<"s", "u", "m", "-", "q", "u", "e", "r", "y", "-", "t", "i", "m", "e">>],
       [idx |-> 2,
        name |-> <<"a", "v", "g", "-", "q", "u", "e", "r", "y", "-", "t", "i", "m", "e">>],
       [idx |-> 3,
        name |-> <<"m", "a", "x", "-", "q", "u", "e", "r", "y", "-", "t", "i", "m", "e">>],
       [idx |-> 7,
        name |-> <<"s", "u", "m", "-", "l", "o", "c", "k", "-", "t", "i", "m", "e">>],
       [idx |-> 5,
        name |-> <<"a", "v", "g", "-", "l", "o", "c", "k", "-", "t", "i", "m", "e">>],
       [idx |-> 6,
        name |-> <<"m", "a", "x", "-", "l", "o", "c", "k", "-", "t", "i", "m", "e">>],
       [idx |-> 13,
        name |-> <<"s", "u", "m", "-", "r", "o", "w", "s", "-", "e", "x", "a", "m", "i", "n", "e", "d">>],
       [idx |-> 11,
        name |-> <<"a", "v", "g", "-", "r", "o", "w", "s", "-", "e", "x", "a", "m", "i", "n", "e", "d">>],
       [idx |-> 12,
        name |-> <<"m", "a", "x", "-", "r", "o", "w", "s", "-", "e", "x", "a", "m", "i", "n", "e", "d">>],
       [idx |-> 1,
        name |-> <<"e", "x", "e", "c", "u", "t", "i", "o", "n", "-", "c", "o", "u", "n", "t">>],
       [idx |-> 10,
        name |-> <<"s", "u", "m", "-", "r", "o", "w", "s", "-", "s", "e", "n", "t">>],
       [idx |-> 8,
        name |-> <<"a", "v", "g", "-", "r", "o", "w", "s", "-", "s", "e", "n", "t">>],
       [idx |-> 9,
        name |-> <<"m", "a", "x", "-", "r", "o", "w", "s", "-", "s", "e", "n", "t">>] >>

\* Lines 287-296: default_sorting as (index, long name, short name), the
\* short name being first_chars of the words of the long one.
SortTable ==
    [k \in 1..Len(default_sorting) |->
        [idx |-> default_sorting[k].idx, long |-> default_sorting[k].name,
         short |-> first_chars(split(default_sorting[k].name, "-"))]]

Contains(s, x) == \E i \in 1..Len(s) : s[i] = x

\* Lines 317-320: one word of a --sort argument.
AddSorting(ns, word) ==
    LET hits == {k \in 1..Len(SortTable) :
                    SortTable[k].long = word \/ SortTable[k].short = word}
    IN IF hits = {} THEN ns
       ELSE LET k == CHOOSE k \in hits : TRUE
            IN IF Contains(ns, SortTable[k].idx) THEN ns
               ELSE Append(ns, SortTable[k].idx)

\* Lines 316-320.
RECURSIVE AddSortings(_, _)
AddSortings(ns, words) ==
    IF words = <<>> THEN ns
    ELSE AddSortings(AddSorting(ns, Head(words)), Tail(words))

\* Lines 337-339: the indexes not named come last, in the default order.
RECURSIVE Complete(_, _)
Complete(ns, k) ==
    IF k > Len(SortTable) THEN ns
    ELSE Complete(IF Contains(ns, SortTable[k].idx) THEN ns
                  ELSE Append(ns, SortTable[k].idx), k + 1)

\* Lines 139-143: array_unique.
RECURSIVE array_unique(_)
array_unique(seq) ==
    IF seq = <<>> THEN <<>>
    ELSE LET init == array_unique(SubSeq(seq, 1, Len(seq) - 1))
         IN IF Contains(init, seq[Len(seq)]) THEN init
            ELSE Append(init, seq[Len(seq)])

Abs(n) == IF n < 0 THEN -n ELSE n

Day == 86400

IsDigit(c) == c \in {"0", "1", "2", "3", "4", "5", "6", "7", "8", "9"}

IsSep(c) == c \in {".", "/", "-"}

DigitAt(s, i) == i >= 1 /\ i <= Len(s) /\ IsDigit(s[i])

\* The patterns of lines 209-216 and 261 match from position i of s and
\* give the position after the match, 0 when they do not match.
\* (?:\d{4}|\d{1,2})
YearOrNum(s, i) ==
    IF \A j \in i..(i + 3) : DigitAt(s, j) THEN i + 4
    ELSE IF DigitAt(s, i) /\ DigitAt(s, i + 1) THEN i + 2
    ELSE IF DigitAt(s, i) THEN i + 1
    ELSE 0

\* \d{1,2}
Num12(s, i) ==
    IF DigitAt(s, i) /\ DigitAt(s, i + 1) THEN i + 2
    ELSE IF DigitAt(s, i) THEN i + 1
    ELSE 0

\* [./-]?
OptSep(s, i) == IF i <= Len(s) /\ IsSep(s[i]) THEN i + 1 ELSE i

\* e when the optional part matched, else the position p before it.
OrElse(e, p) == IF e # 0 THEN e ELSE p

\* Line 210: the middle part of the first date from p, with the separator
\* after it.
FirstMiddle(s, p) ==
    IF Num12(s, OptSep(s, p)) # 0 THEN OptSep(s, Num12(s, OptSep(s, p))) ELSE p

\* Lines 208-212: the first group of date_regex from position i (where
\* YearOrNum matches); every part after the first is optional.
FirstDateEnd(s, i) ==
    OrElse(YearOrNum(s, FirstMiddle(s, YearOrNum(s, i))),
           FirstMiddle(s, YearOrNum(s, i)))

\* Line 215: the middle part of the second date from q.
SecondMiddle(s, q) == OrElse(Num12(s, OptSep(s, q)), q)

\* Line 216: the end part of the second date from mid.
SecondLast(s, mid) == OrElse(YearOrNum(s, OptSep(s, mid)), mid)

\* Lines 213-217: the optional second date from position i, 0 when absent.
SecondDateEnd(s, i) ==
    IF ~(i <= Len(s) /\ s[i] = "-" /\ YearOrNum(s, i + 1) # 0) THEN 0
    ELSE SecondLast(s, SecondMiddle(s, YearOrNum(s, i + 1)))

\* match.groups('') of a match from i with the first group up to e1 and the
\* second up to e2.
Groups(date, i, e1, e2) ==
    [found |-> TRUE, g1 |-> SubSeq(date, i, e1 - 1),
     g2 |-> IF e2 = 0 THEN <<>> ELSE SubSeq(date, e1 + 1, e2 - 1)]

GroupsFrom(date, i, e1) == Groups(date, i, e1, SecondDateEnd(date, e1))

\* Lines 222-223 and 230-231: date_regex.search(date) and groups(''); the
\* match starts at the first digit.
date_regex_search(date) ==
    IF \A i \in 1..Len(date) : ~IsDigit(date[i])
    THEN [found |-> FALSE, g1 |-> <<>>, g2 |-> <<>>]
    ELSE GroupsFrom(date,
                    CHOOSE i \in 1..Len(date) : IsDigit(date[i])
                                 /\ \A j \in 1..(i - 1) : ~IsDigit(date[j]),
                    FirstDateEnd(date,
                                 CHOOSE i \in 1..Len(date) : IsDigit(date[i])
                                     /\ \A j \in 1..(i - 1) : ~IsDigit(date[j])))

DigitVal(c) ==
    CASE c = "0" -> 0 [] c = "1" -> 1 [] c = "2" -> 2 [] c = "3" -> 3
      [] c = "4" -> 4 [] c = "5" -> 5 [] c = "6" -> 6 [] c = "7" -> 7
      [] c = "8" -> 8 [] c = "9" -> 9

\* int() of a string of digits.
RECURSIVE IntOf(_)
IntOf(s) ==
    IF s = <<>> THEN 0
    ELSE 10 * IntOf(SubSeq(s, 1, Len(s) - 1)) + DigitVal(s[Len(s)])

\* Line 265: str(time.gmtime()[0]), the year of the clock.
now_year == <<"2", "0", "0", "6">>

IsLeap(y) == (y % 4 = 0 /\ y % 100 # 0) \/ y % 400 = 0

DaysIn(m, y) ==
    IF m = 2 THEN (IF IsLeap(y) THEN 29 ELSE 28)
    ELSE IF m \in {4, 6, 9, 11} THEN 30 ELSE 31

RECURSIVE DaysBeforeMonth(_, _)
DaysBeforeMonth(m, y) ==
    IF m <= 1 THEN 0 ELSE DaysBeforeMonth(m - 1, y) + DaysIn(m - 1, y)

\* The leap years before year y.
LeapsBefore(y) == (y - 1) \div 4 - (y - 1) \div 100 + (y - 1) \div 400

\* Line 269: time.mktime of midnight of day d of month m of year y, in a
\* time zone without offset.
mktime(d, m, y) ==
    Day * (365 * (y - 1970) + (LeapsBefore(y) - LeapsBefore(1970))
           + DaysBeforeMonth(m, y) + (d - 1))

\* Lines 268-271: strptime raises ValueError for a day that does not exist.
TimeOf(day, month, year) ==
    IF month >= 1 /\ month <= 12 /\ day >= 1 /\ day <= DaysIn(month, year)
    THEN mktime(day, month, year)
    ELSE 0

\* Lines 263-271 on the groups of line 261: the formats of line 263 read
\* day and month in the order of the separator, the year is completed from
\* the year of the clock, and %d and %m take two digits at most.
strptime(sep, m0, m2, m3) ==
    IF Len(m0) > 2 THEN 0
    ELSE TimeOf(IntOf(IF sep = "/" THEN m2 ELSE m0),
                IntOf(IF sep = "/" THEN m0 ELSE m2),
                IntOf(SubSeq(now_year, 1, 4 - Len(m3)) \o m3))

\* Line 261: the first group takes p - 1 digits when a separator and a
\* digit follow them.
GroupEndsAt(date, p) ==
    /\ \A j \in 1..(p - 1) : DigitAt(date, j)
    /\ p <= Len(date) /\ IsSep(date[p])
    /\ DigitAt(date, p + 1)

\* Line 261: (?:\2(\d{4}|\d{1,2}))? from position r.
YearGroup(date, sep, r) ==
    IF r <= Len(date) /\ date[r] = sep /\ YearOrNum(date, r + 1) # 0
    THEN SubSeq(date, r + 1, YearOrNum(date, r + 1) - 1)
    ELSE <<>>

\* Line 261 with the first group ending before p (0: no match).
MatchAt(date, p) ==
    IF p = 0 THEN 0
    ELSE strptime(date[p], SubSeq(date, 1, p - 1),
                  SubSeq(date, p + 1, Num12(date, p + 1) - 1),
                  YearGroup(date, date[p], Num12(date, p + 1)))

\* Line 261: the first group is the first of 4, 2, 1 digits that matches.
MatchTime(date) ==
    MatchAt(date, IF GroupEndsAt(date, 5) THEN 5
                  ELSE IF GroupEndsAt(date, 3) THEN 3
                  ELSE IF GroupEndsAt(date, 2) THEN 2
                  ELSE 0)

\* Lines 256-273: parse_time; 0 is the False of line 273.
parse_time(date) ==
    MatchTime(IF date # <<>> /\ date[Len(date)] = "-"
              THEN SubSeq(date, 1, Len(date) - 1) ELSE date)

\* DateRange without the exchange of lines 243-244.
DateRangeUnordered(date, match, time1, time2) ==
    IF date[1] \in {"<", ">", "-"}
    THEN IF ~match.found THEN [raised |-> TRUE, first |-> 0, last |-> 0]
         ELSE IF time1 = 0 THEN [raised |-> FALSE, first |-> 0, last |-> 0]
         ELSE IF date[1] = ">"
              THEN [raised |-> FALSE, first |-> time1 + Day, last |-> 0]
         ELSE IF date[1] = "-"
              THEN [raised |-> FALSE, first |-> 0, last |-> time1 + Day]
         ELSE [raised |-> FALSE, first |-> 0, last |-> time1]
    ELSE IF ~match.found THEN [raised |-> FALSE, first |-> 0, last |-> 0]
         ELSE IF time2 # 0
         THEN IF time1 = 0
              THEN [raised |-> FALSE, first |-> 0, last |-> time2 + Day]
              ELSE [raised |-> FALSE, first |-> time1, last |-> time2 + Day]
         ELSE IF time1 # 0
         THEN IF Len(date) = Len(match.g1) \/ date[Len(match.g1) + 1] # "-"
              THEN [raised |-> FALSE, first |-> time1, last |-> time1 + Day]
              ELSE [raised |-> FALSE, first |-> time1, last |-> 0]
         ELSE [raised |-> FALSE, first |-> 0, last |-> 0]

\* Lines 221-254: parse_date_range after the search, with time1 and time2 of
\* lines 224 and 235-236.  The result is [raised, first, last]; 0 is False,
\* and match[0] of the empty tuple raises IndexError.
DateRange(date, match, time1, time2) ==
    IF date[1] \in {"<", ">", "-"}
    THEN IF ~match.found THEN [raised |-> TRUE, first |-> 0, last |-> 0]
         ELSE IF time1 = 0 THEN [raised |-> FALSE, first |-> 0, last |-> 0]
         ELSE IF date[1] = ">"
              THEN [raised |-> FALSE, first |-> time1 + Day, last |-> 0]
         ELSE IF date[1] = "-"
              THEN [raised |-> FALSE, first |-> 0, last |-> time1 + Day]
         ELSE [raised |-> FALSE, first |-> 0, last |-> time1]
    ELSE IF ~match.found THEN [raised |-> FALSE, first |-> 0, last |-> 0]
         ELSE IF time2 # 0
         THEN IF time1 = 0
              THEN [raised |-> FALSE, first |-> 0, last |-> time2 + Day]
              ELSE IF time2 < time1
                   THEN [raised |-> FALSE, first |-> time2, last |-> time1 + Day]
                   ELSE [raised |-> FALSE, first |-> time1, last |-> time2 + Day]
         ELSE IF time1 # 0
         THEN IF Len(date) = Len(match.g1) \/ date[Len(match.g1) + 1] # "-"
              THEN [raised |-> FALSE, first |-> time1, last |-> time1 + Day]
              ELSE [raised |-> FALSE, first |-> time1, last |-> 0]
         ELSE [raised |-> FALSE, first |-> 0, last |-> 0]

DateRangeOf(date, match) ==
    DateRange(date, match, parse_time(match.g1), parse_time(match.g2))

\* Lines 193-254: parse_date_range.
parse_date_range(date) == DateRangeOf(date, date_regex_search(date))

\* An argument is [opt, isint, n, text]; text is what follows the prefix.
Arg(o) == [opt |-> o, isint |-> FALSE, n |-> 0, text |-> <<>>]

SortArg(t) == [Arg("--sort") EXCEPT !.text = t]

DateArg(t) == [Arg("--date=") EXCEPT !.text = t]

Args ==
    {[Arg("-T=") EXCEPT !.isint = TRUE, !.n = n] : n \in {3, -2}}
    \cup {Arg("-T="), Arg("-R="), Arg("--top=")}
    \cup {[Arg("-R=") EXCEPT !.isint = TRUE, !.n = 3]}
    \cup {[Arg(o) EXCEPT !.text = u] : o \in {"-iu", "-eu"}, u \in {<<"r">>, <<"t">>}}
    \cup {[Arg("-iq") EXCEPT !.text = <<"s">>]}
    \cup {Arg("--no-duplicates"), Arg("--details"), Arg("--help"), Arg("other")}
    \cup {SortArg(<<"m", "q", "t">>), SortArg(<<"f", "o", "o">>),
          SortArg(<<"e", "c">>),
          SortArg(default_sorting[10].name \o <<",", "m", "q", "t">>)}
    \cup {[Arg("--top=") EXCEPT !.isint = TRUE, !.n = n] : n \in {0, 1}}
    \cup {DateArg(<<"1", "3", ".", "1", "1", ".", "2", "0", "0", "6">>),
          DateArg(<<">", "1", "5", ".", "1", "1", ".", "2", "0", "0", "6">>),
          DateArg(<<"<", "x", "y", "z">>),
          DateArg(<<"x", "y", "z", ".">>),
          DateArg(<<"3", ".", "2">>)}

\* Line 327 without its test: every --date argument is parsed.
DateNeverParsed == FALSE

\* Line 327: if date_first or date_last.
DateAlreadyParsed == date_first # 0 \/ date_last # 0

\* Line 329 for an argument that gets there; nothing otherwise.
DateOf(a) ==
    IF a.opt = "--date=" /\ 7 + Len(a.text) > 10 /\ ~DateAlreadyParsed
    THEN parse_date_range(a.text)
    ELSE [raised |-> FALSE, first |-> date_first, last |-> date_last]

\* Lines 305-334: one argument; r is DateOf(a).
ParseArgDated(a, r) ==
    /\ pc = "args"
    /\ argv' = Append(argv, a)
    /\ min_query_time' = IF a.opt = "-T=" /\ a.isint THEN Abs(a.n) ELSE min_query_time
    /\ min_rows_examined' =
          IF a.opt = "-R=" /\ a.isint THEN Abs(a.n) ELSE min_rows_examined
    /\ include_users' =
          IF a.opt = "-iu" THEN Append(include_users, a.text) ELSE include_users
    /\ exclude_users' =
          IF a.opt = "-eu" THEN Append(exclude_users, a.text) ELSE exclude_users
    /\ include_queries' =
          IF a.opt = "-iq" THEN Append(include_queries, a.text) ELSE include_queries
    /\ no_duplicates' = IF a.opt = "--no-duplicates" THEN TRUE ELSE no_duplicates
    /\ details' = IF a.opt = "--details" THEN TRUE ELSE details
    /\ new_sorting' = IF a.opt = "--sort" /\ 7 + Len(a.text) > 9
                      THEN AddSortings(new_sorting, split(a.text, ","))
                      ELSE new_sorting
    /\ top' = IF a.opt = "--top=" /\ a.isint /\ a.n # 0 THEN Abs(a.n) ELSE top
    /\ date_first' = IF r.raised THEN date_first ELSE r.first
    /\ date_last' = IF r.raised THEN date_last ELSE r.last
    /\ pc' = IF r.raised THEN "crashed"
             ELSE IF a.opt = "--help" THEN "helped"
             ELSE pc
    /\ UNCHANGED <<loopvars, lines, stdout>>

\* Lines 305-334: one argument.
ParseArg(a) == ParseArgDated(a, DateOf(a))

\* Lines 335-340: after the last argument.
AfterArgs ==
    /\ pc = "args"
    /\ include_users' = array_unique(include_users)
    /\ exclude_users' = array_unique(exclude_users)
    /\ new_sorting' = Complete(new_sorting, 1)
    /\ stdout' = Append(stdout, new_sorting')      \* print new_sorting
    /\ pc' = "exited"                              \* sys.exit()
    /\ UNCHANGED <<argv, min_query_time, min_rows_examined, include_queries,
                   no_duplicates, details, date_first, date_last, top,
                   loopvars, lines>>

InitRun ==
    /\ pc = "args"
    /\ argv = <<>>
    /\ min_query_time = 1               \* 276
    /\ min_rows_examined = 0            \* 277
    /\ include_users = <<>>
    /\ exclude_users = <<>>
    /\ include_queries = <<>>
    /\ no_duplicates = FALSE
    /\ details = FALSE
    /\ date_first = 0
    /\ date_last = 0
    /\ new_sorting = <<>>
    /\ top = 0
    /\ line = NoLine
    /\ nlines = 0
    /\ eof = FALSE
    /\ in_query = FALSE
    /\ query = <<>>
    /\ timestamp = <<>>
    /\ user = <<>>
    /\ query_time = <<>>
    /\ queries = {}
    /\ lines = <<>>
    /\ stdout = <<>>
    /\ accepted = EmptyBag

NextArg == Len(argv) < MaxArgs /\ \E a \in Args : ParseArg(a)

NextRun == NextArg \/ AfterArgs

SpecRun == InitRun /\ [][NextRun]_vars

\* The script started with --sort arguments only.
MaxSortArgs == 2

SortArgs ==
    {SortArg(SortTable[k].long) : k \in 1..Len(SortTable)}
    \cup {SortArg(SortTable[k].short) : k \in 1..Len(SortTable)}
    \cup {SortArg(<<>>), SortArg(<<"4">>), SortArg(<<"f", "o", "o">>),
          SortArg(<<"e", "c", ",", "m", "q", "t">>),
          SortArg(<<"m", "q", "t", ",", "f", "o", "o", ",", "s", "l", "t", ",",
                    "m", "q", "t">>)}

NextSortArg == Len(argv) < MaxSortArgs /\ \E a \in SortArgs : ParseArg(a)

NextSort == NextSortArg \/ AfterArgs

SpecSort == InitRun /\ [][NextSort]_vars

\* The script started with one --date argument.  The well-formed date
\* expressions are written out from a form, one or two days, and the way
\* each day is written: with "." (day.month.year), "-" (day-month-year) or
\* "/" (month/day/year), in full or short (no year, trailing separator).
MaxDateArgs == 1

DigitChar(n) ==
    CASE n = 0 -> "0" [] n = 1 -> "1" [] n = 2 -> "2" [] n = 3 -> "3"
      [] n = 4 -> "4" [] n = 5 -> "5" [] n = 6 -> "6" [] n = 7 -> "7"
      [] n = 8 -> "8" [] n = 9 -> "9"

\* str(n) for 0 <= n.
RECURSIVE StrOf(_)
StrOf(n) ==
    IF n < 10 THEN <<DigitChar(n)>>
    ELSE Append(StrOf(n \div 10), DigitChar(n % 10))

Days == {[d |-> 13, m |-> 11, y |-> IntOf(now_year)],
         [d |-> 15, m |-> 11, y |-> IntOf(now_year)],
         [d |-> 3, m |-> 2, y |-> IntOf(now_year)]}

Styles == {[sep |-> c, short |-> b] : c \in {".", "-", "/"}, b \in BOOLEAN}

WriteDay(day, st) ==
    (IF st.sep = "/" THEN StrOf(day.m) \o <<"/">> \o StrOf(day.d)
     ELSE StrOf(day.d) \o <<st.sep>> \o StrOf(day.m))
    \o <<st.sep>> \o (IF st.short THEN <<>> ELSE StrOf(day.y))

Forms == {"day", "range", "after", "from", "before", "until"}

\* Lines 79-85 and 194-202: the expression of form f.
WriteExpr(f, day1, st1, day2, st2) ==
    CASE f = "day" -> WriteDay(day1, st1)
      [] f = "range" -> WriteDay(day1, st1) \o <<"-">> \o WriteDay(day2, st2)
      [] f = "after" -> <<">">> \o WriteDay(day1, st1)
      [] f = "from" -> WriteDay(day1, st1) \o <<"-">>
      [] f = "before" -> <<"<">> \o WriteDay(day1, st1)
      [] f = "until" -> <<"-">> \o WriteDay(day1, st1)

\* The well-formed expressions with what they were written from; the two
\* days of a range are both full or both short.
DateExprs ==
    {[form |-> f, day1 |-> day1, day2 |-> day1,
      text |-> WriteExpr(f, day1, st1, day1, st1)] :
        f \in Forms \ {"range"}, day1 \in Days, st1 \in Styles}
    \cup {[form |-> "range", day1 |-> day1, day2 |-> day2,
           text |-> WriteExpr("range", day1, sts[1], day2, sts[2])] :
             day1 \in Days, day2 \in Days,
             sts \in {p \in Styles \X Styles : p[1].short = p[2].short}}

\* Expressions in which no valid date can be recognised: no digit at all, or
\* a day or a month that does not exist, with and without a leading "<", ">"
\* or "-".
MalformedExprs ==
    {<<"x", "y", "z", ".">>, <<"<", "x", "y", "z">>, <<">", "x", "y", "z">>,
     <<"-", "x", "y", "z">>,
     <<"3", "1", ".", "1", "1", ".">>, <<"<", "3", "1", ".", "1", "1", ".">>,
     <<">", "9", "9", ".", "9", "9", ".", "2", "0", "0", "6">>,
     <<"-", "1", "3", ".", "0", ".", "2", "0", "0", "6">>}

DateArgs ==
    {DateArg(e.text) : e \in DateExprs}
    \cup {DateArg(t) : t \in MalformedExprs}
    \cup {DateArg(<<"3", ".", "2">>)}

NextDateArg == Len(argv) < MaxDateArgs /\ \E a \in DateArgs : ParseArg(a)

NextDate == NextDateArg \/ AfterArgs

SpecDate == InitRun /\ [][NextDate]_vars

\* The script started with several --date arguments, those of Args and one
\* more that gives an end only.
MaxDateSeq == 3

DateSeqArgs ==
    {a \in Args : a.opt = "--date="}
    \cup {DateArg(<<"-", "1", "5", ".", "1", "1", ".", "2", "0", "0", "6">>)}

NextDateSeqArg == Len(argv) < MaxDateSeq /\ \E a \in DateSeqArgs : ParseArg(a)

NextDateSeq == NextDateSeqArg \/ AfterArgs

SpecDateSeq == InitRun /\ [][NextDateSeq]_vars

----------------------------------------------------------------------------
(* The claims.                                                             *)

Calls == BagCardinality(accepted)

\* The line just read is a metadata line / the end of the stream was just met.
MarkedStep == pc = "loop" /\ nlines' = nlines + 1 /\ line'.mark
BodyStep == pc = "loop" /\ nlines' = nlines + 1 /\ ~line'.mark
EofStep == pc = "loop" /\ eof'

\* C1: without --no-duplicates and with a non-empty include-query set, every
\* record printed has a body that contains one of the include-query entries,
\* whether the next metadata line or the end of the stream flushed it.
C1_PrintedMatchIncludeQuery ==
    (~no_duplicates /\ include_queries # <<>>) =>
        \A i \in 1..Len(stdout) :
            \E k \in 1..Len(include_queries) : IsSubstr(include_queries[k], stdout[i].query)

RECURSIVE SumCounts(_, _)
SumCounts(f, Q) ==
    IF Q = {} THEN 0
    ELSE LET q == CHOOSE x \in Q : TRUE IN f[q][1] + SumCounts(f, Q \ {q})

\* C2: with --no-duplicates and no --top, the execution counts of the
\* aggregated queries add up to the number of calls of process_query.
C2_CountPreserving ==
    (/\ pc \in {"report", "done"} /\ no_duplicates /\ top = 0
     /\ \A c \in BagToSet(accepted) : Len(c.query_time) = 4) =>
        SumCounts(lines, DOMAIN lines) = Calls

\* C3: a Time line with time t keeps its timestamp iff t >= start (when a
\* start is given) and t < end (when an end is given).
C3_DateIntervalHalfOpen ==
    (pc = "loop" /\ line.mark /\ line.c2 = "T") =>
        LET t == get_log_timestamp(line.text)
        IN (timestamp # PyFalse) <=>
              ((date_first = 0 \/ t >= date_first) /\ (date_last = 0 \/ t < date_last))

\* C4: the script ends only after it has read stdin to the end of the stream.
C4_RunReadsInput == pc = "exited" => eof

\* C5: every record printed carries counters that meet the thresholds:
\* Query_time >= min_query_time, or min_rows_examined > 0 and
\* Rows_examined >= min_rows_examined.
C5_PrintedMeetThreshold ==
    ~no_duplicates =>
        \A i \in 1..Len(stdout) :
            \/ stdout[i].query_time[1] >= min_query_time
            \/ (min_rows_examined > 0 /\ stdout[i].query_time[4] >= min_rows_examined)

\* The user filter as the specification words it.
UserAccepted(u) ==
    IF include_users # <<>>
    THEN \E k \in 1..Len(include_users) : IsSubstr(include_users[k], u)
    ELSE \A k \in 1..Len(exclude_users) : ~IsSubstr(exclude_users[k], u)

\* C6: every record printed or stored for aggregation has a user that
\* contains an include-user entry when there are any, and otherwise contains
\* no exclude-user entry.
C6_UserFilterHolds ==
    /\ \A c \in BagToSet(accepted) : UserAccepted(c.user)
    /\ \A e \in queries : UserAccepted(e.user)
    /\ ~no_duplicates => \A i \in 1..Len(stdout) : UserAccepted(stdout[i].user)

\* A record was printed whose user holds an exclude-user entry: the
\* include-user set is not empty, so the exclude-user set was not consulted.
C6_Witness ==
    /\ ~no_duplicates /\ include_users # <<>> /\ exclude_users # <<>>
    /\ \E i \in 1..Len(stdout) :
          /\ stdout[i].user = <<"r", "t">>
          /\ AnyIn(exclude_users, stdout[i].user)

\* C7: a Query_time line whose numbers do not parse drops the record and
\* nothing else: the loop goes on with in_query false.
C7_MalformedCountersDropRecord ==
    [][(MarkedStep /\ query = <<>> /\ in_query /\ line'.c2 = "Q" /\ Len(line'.nums) < 4)
          => (pc' = "loop" /\ ~in_query')]_vars

\* The flush of a metadata line lets the record through to process_query.
PassesIncludeQuery(q) ==
    include_queries = <<>>
        \/ \E k \in 1..Len(include_queries) : IsSubstr(include_queries[k], q)

\* C8, as claimed: when a metadata line or the end of the stream ends a
\* record whose body was accumulated, process_query is called once, and the
\* loop goes on with an empty query buffer.
C8_FlushedExactlyOnce ==
    [][((MarkedStep \/ EofStep) /\ query # <<>> /\ Len(query_time) = 4)
          => (Calls' = Calls + 1 /\ (pc' = "loop" => query' = <<>>))]_vars

\* C8, amended: a record whose body was accumulated is passed to
\* process_query once, with that body, when the end of the stream ends it or
\* when a metadata line ends it and the include-query set is empty or matches
\* the body, and not at all when a metadata line ends it and the set does not
\* match; no other step calls process_query.  The loop goes on with an empty
\* query buffer; the end of the stream, after which nothing reads the buffer,
\* leaves it as it is.
C8_FlushedAtMostOnce ==
    [][/\ (MarkedStep /\ query # <<>> /\ PassesIncludeQuery(query)) =>
             /\ accepted' = accepted (+) SetToBag({Call(query, user, timestamp, query_time)})
             /\ pc' = "loop" => query' = <<>>
       /\ (MarkedStep /\ query # <<>> /\ ~PassesIncludeQuery(query)) =>
             (accepted' = accepted /\ (pc' = "loop" => query' = <<>>))
       /\ (EofStep /\ query # <<>>) =>
             /\ accepted' = accepted (+) SetToBag({Call(query, user, timestamp, query_time)})
             /\ query' = query
       /\ (BodyStep \/ query = <<>> \/ pc # "loop") => accepted' = accepted]_vars

\* A metadata line flushed one record and the end of the stream another.
C8_Witness == eof /\ query # <<>> /\ Calls = 2

\* The calls of process_query for the query text q.
CallsOf(q) == {c \in BagToSet(accepted) : c.query = q}

\* All calls for q have one user and one counter tuple, and no two of them
\* have the same timestamp.
Repeated(q) ==
    /\ Cardinality(CallsOf(q)) >= 2
    /\ \A c, d \in CallsOf(q) : c.user = d.user /\ c.query_time = d.query_time
    /\ \A c \in CallsOf(q) : CopiesIn(c, accepted) = 1 /\ Len(c.query_time) = 4

\* C9: k >= 2 accepted records with the same query text, user and counters
\* and different timestamps give one aggregated query with execution count k,
\* one counter tuple under the user, every sum k times the counter and every
\* max the counter.
C9_RepeatedRecordsMerge ==
    pc \in {"report", "done"} =>
        \A q \in {c.query : c \in BagToSet(accepted)} :
            Repeated(q) =>
                LET k == Cardinality(CallsOf(q))
                    c == CHOOSE c \in CallsOf(q) : TRUE
                    d == lines[q]
                IN /\ q \in DOMAIN lines
                   /\ d[1] = k
                   /\ Len(d[0].users) = 1
                   /\ d[0].users[1].user = c.user
                   /\ details => d[0].users[1].query_times = {c.query_time}
                   /\ d[4] = k * c.query_time[1] /\ d[3] = c.query_time[1]
                   /\ d[7] = k * c.query_time[2] /\ d[6] = c.query_time[2]
                   /\ d[10] = k * c.query_time[3] /\ d[9] = c.query_time[3]
                   /\ d[13] = k * c.query_time[4] /\ d[12] = c.query_time[4]

\* Two records of one query, with the counters 1 1 0 3, were aggregated.
C9_Witness ==
    /\ pc = "done" /\ details
    /\ \E q \in DOMAIN lines :
          /\ Repeated(q)
          /\ lines[q][1] = 2
          /\ lines[q][13] = 6

\* C10: of two results printed, the earlier one has the larger value on the
\* first key of new_sorting on which they differ.
C10_PrintedInKeyOrder ==
    (pc = "done" /\ no_duplicates) =>
        \A i, j \in 1..Len(stdout) :
            i < j =>
                \A k \in 1..Len(new_sorting) :
                    (/\ stdout[i].data[new_sorting[k]] # stdout[j].data[new_sorting[k]]
                     /\ \A m \in 1..(k - 1) :
                           stdout[i].data[new_sorting[m]] = stdout[j].data[new_sorting[m]])
                    => stdout[i].data[new_sorting[k]] > stdout[j].data[new_sorting[k]]

\* Two results were printed that tie on the first key and differ on a later one.
C10_Witness ==
    /\ pc = "done" /\ Len(stdout) >= 2
    /\ stdout[1].data[new_sorting[1]] = stdout[2].data[new_sorting[1]]
    /\ \E k \in 2..Len(new_sorting) :
          stdout[1].data[new_sorting[k]] > stdout[2].data[new_sorting[k]]

\* The words of the --sort arguments consumed so far, in order.
RECURSIVE SortWords(_)
SortWords(args) ==
    IF args = <<>> THEN <<>>
    ELSE (IF Head(args).opt = "--sort" THEN split(Head(args).text, ",") ELSE <<>>)
         \o SortWords(Tail(args))

\* The places of SortWords(argv) that name field f, by long or short name.
NamedAt(f) ==
    {i \in 1..Len(SortWords(argv)) :
        \E k \in 1..Len(SortTable) :
            /\ SortTable[k].idx = f
            /\ SortWords(argv)[i] \in {SortTable[k].long, SortTable[k].short}}

FirstNamedAt(f) == CHOOSE i \in NamedAt(f) : \A j \in NamedAt(f) : i <= j

DefaultAt(f) == CHOOSE k \in 1..Len(SortTable) : SortTable[k].idx = f

\* C11: after argument parsing new_sorting is a permutation of the thirteen
\* fields without duplicates; the fields the user named come first, in the
\* order of their first occurrence, and the others follow in default order.
C11_SortingIsNamedThenDefault ==
    pc = "exited" =>
        /\ Len(new_sorting) = Len(SortTable)
        /\ {new_sorting[i] : i \in 1..Len(new_sorting)} = 1..Len(SortTable)
        /\ \A i, j \in 1..Len(new_sorting) :
              i < j =>
                 LET f == new_sorting[i]
                     g == new_sorting[j]
                 IN IF NamedAt(f) # {}
                    THEN NamedAt(g) # {} => FirstNamedAt(f) < FirstNamedAt(g)
                    ELSE NamedAt(g) = {} /\ DefaultAt(f) < DefaultAt(g)

\* The sorting with the field of row k of SortTable first and the others in
\* default order.
FieldFirst(k) ==
    <<SortTable[k].idx>>
       \o SelectSeq([i \in 1..Len(SortTable) |-> SortTable[i].idx],
                    LAMBDA f : f # SortTable[k].idx)

\* C14: every long sort name has an equivalent short form: a run with
\* --sort=<short> alone and a run with --sort=<long> alone end with the same
\* new_sorting, the one that puts the named field first.
C14_ShortEqualsLong ==
    \A k \in 1..Len(SortTable) :
        (/\ pc = "exited"
         /\ argv \in {<<SortArg(SortTable[k].long)>>, <<SortArg(SortTable[k].short)>>})
        => new_sorting = FieldFirst(k)

\* C12: with top = N > 0 and M aggregated results exactly min(N, M) results
\* are printed, and no result left out sorts before a printed one; with top
\* zero all M are printed.
C12_TopLimitsOutput ==
    (pc = "done" /\ no_duplicates) =>
        LET M == Cardinality(DOMAIN lines)
            printed == {stdout[i].query : i \in 1..Len(stdout)}
        IN /\ Len(stdout) = IF top > 0 /\ top < M THEN top ELSE M
           /\ Cardinality(printed) = Len(stdout)
           /\ printed \subseteq DOMAIN lines
           /\ \A i \in 1..Len(stdout) : stdout[i].data = lines[stdout[i].query]
           /\ \A q \in DOMAIN lines \ printed :
                 \A i \in 1..Len(stdout) :
                    \A k \in 1..Len(new_sorting) :
                       (/\ stdout[i].data[new_sorting[k]] # lines[q][new_sorting[k]]
                        /\ \A m \in 1..(k - 1) :
                              stdout[i].data[new_sorting[m]] = lines[q][new_sorting[m]])
                       => stdout[i].data[new_sorting[k]] > lines[q][new_sorting[k]]

\* With top = 1, one of two results that differ in a sort key was printed.
C12_Witness ==
    /\ pc = "done" /\ top = 1 /\ Len(stdout) = 1
    /\ \E q \in DOMAIN lines :
          \E k \in 1..Len(new_sorting) :
             stdout[1].data[new_sorting[k]] # lines[q][new_sorting[k]]

\* Lines 79-85: the interval the usage text gives for an expression, [first,
\* last] with 0 for an open side.
Documented(e) ==
    LET t1 == mktime(e.day1.d, e.day1.m, e.day1.y)
        t2 == mktime(e.day2.d, e.day2.m, e.day2.y)
    IN CASE e.form = "day" -> <<t1, t1 + Day>>
         [] e.form = "range" -> <<IF t1 < t2 THEN t1 ELSE t2,
                                  (IF t1 < t2 THEN t2 ELSE t1) + Day>>
         [] e.form = "after" -> <<t1 + Day, 0>>
         [] e.form = "from" -> <<t1, 0>>
         [] e.form = "before" -> <<0, t1>>
         [] e.form = "until" -> <<0, t1 + Day>>

\* C13: parse_date_range maps every well-formed expression to the documented
\* interval: d to [d, d + 1 day), d1-d2 in either order to [min, max + 1 day),
\* >d to a start of d + 1 day, d- to a start of d, <d to an end of d and -d
\* to an end of d + 1 day.
C13_DateRangeAsDocumented ==
    \A e \in DateExprs :
        argv = <<DateArg(e.text)>> => <<date_first, date_last>> = Documented(e)

\* A range written with the later day first, in two different ways of
\* writing, has been parsed.
C13_Witness ==
    \E e \in DateExprs :
        /\ argv = <<DateArg(e.text)>>
        /\ e.form = "range"
        /\ mktime(e.day2.d, e.day2.m, e.day2.y) < mktime(e.day1.d, e.day1.m, e.day1.y)
        /\ \E i \in 1..Len(e.text) : e.text[i] = "/"
        /\ \E i \in 1..Len(e.text) : e.text[i] = "."
        /\ date_first # 0 /\ date_last # 0

\* C15: a block whose # Query_time line is missing never flushes: as long as
\* no # Query_time line has been parsed, nothing is passed to process_query.
C15_NoCountersNoFlush == query_time = <<>> => Calls = 0

\* C16: when the date filter rejects a # Time line the whole record is
\* skipped: while the rejected timestamp stands no body line is accumulated,
\* and no record is passed on with it.
C16_RejectedTimeSkipsRecord ==
    /\ timestamp = PyFalse => query = <<>>
    /\ \A c \in BagToSet(accepted) : c.timestamp # PyFalse

\* The times of the stored occurrences of query text q.
TimesOf(q) == {get_log_timestamp(e.timestamp) : e \in EntriesOf(queries, q)}

\* C17: the first and the last timestamp printed for an aggregated query are
\* the minimum and the maximum over all its occurrences, in whatever order
\* the occurrences are visited.
C17_FirstLastAreMinMax ==
    (pc = "done" /\ no_duplicates) =>
        \A i \in 1..Len(stdout) :
            LET p == stdout[i].period
            IN /\ \A t \in TimesOf(stdout[i].query) : p[1] <= t /\ t <= p[Len(p)]
               /\ p[1] \in TimesOf(stdout[i].query)
               /\ p[Len(p)] \in TimesOf(stdout[i].query)

\* a / n rounded to the nearest integer, halves away from zero (0 <= a, 0 < n).
RoundNearest(a, n) == (2 * a + n) \div (2 * n)

\* C18: the printed average of rows sent and of rows examined is the sum
\* divided by the execution count, rounded to the nearest integer (a sum of
\* 3 over 2 executions gives 2), and the execution count is at least 1.
C18_AverageRowsRounded ==
    (pc = "done" /\ no_duplicates) =>
        \A i \in 1..Len(stdout) :
            LET d == stdout[i].data
            IN /\ d[1] >= 1
               /\ d[8] = RoundNearest(d[10], d[1])
               /\ d[11] = RoundNearest(d[13], d[1])

\* The records passed to process_query with query text q.
CallsWith(q) == {c \in BagToSet(accepted) : c.query = q}

\* The sum of counter k over the calls in C, each as often as it was made.
RECURSIVE SumOver(_, _)
SumOver(C, k) ==
    IF C = {} THEN 0
    ELSE LET c == CHOOSE x \in C : TRUE
         IN c.query_time[k] * CopiesIn(c, accepted) + SumOver(C \ {c}, k)

\* C19: for every counter the printed sum is the sum of the counter over
\* every accepted record with that query text, and the printed maximum is
\* the maximum over the same records.
C19_SumAndMaxOverRecords ==
    (/\ pc = "done" /\ no_duplicates
     /\ \A c \in BagToSet(accepted) : Len(c.query_time) = 4) =>
        \A i \in 1..Len(stdout) :
            LET d == stdout[i].data
                C == CallsWith(stdout[i].query)
            IN \A k \in 1..4 :
                  /\ d[3 * k + 1] = SumOver(C, k)
                  /\ \A c \in C : c.query_time[k] <= d[3 * k]
                  /\ \E c \in C : c.query_time[k] = d[3 * k]

\* The interval a run ends with when a is its only argument (0 is False).
DateAlone(a) ==
    IF a.opt = "--date=" /\ 7 + Len(a.text) > 10 /\ ~parse_date_range(a.text).raised
    THEN <<parse_date_range(a.text).first, parse_date_range(a.text).last>>
    ELSE <<0, 0>>

\* The places of the --date arguments consumed so far.
DatesAt == {i \in 1..Len(argv) : argv[i].opt = "--date="}

\* The places of the --date arguments that give a bound.
BoundsAt == {i \in DatesAt : DateAlone(argv[i]) # <<0, 0>>}

C21_MalformedDateNeverAborts ==
    \A t \in MalformedExprs :
        (argv # <<>> /\ argv[Len(argv)] = DateArg(t)) =>
            /\ pc # "crashed"
            /\ Len(argv) = 1 => <<date_first, date_last>> = <<0, 0>>

\* C22: in every state of the line loop a non-empty query buffer implies
\* in_query, and right after a metadata line is processed the buffer is
\* empty, so body lines of two blocks are never joined into one record.
C22_BufferOnlyWhileInQuery ==
    pc = "loop" =>
        /\ query # <<>> => in_query
        /\ (nlines > 0 /\ line.mark) => query = <<>>

\* A metadata line was just processed, a record was passed on before it, and
\* the line switched in_query on again.
C22_Witness ==
    /\ pc = "loop" /\ nlines > 0 /\ line.mark
    /\ Calls >= 1 /\ in_query /\ query = <<>>

====
